---- MODULE Spec2Model ----
(***************************************************************************)
(* Model of src/app.py: the news discovery controller                      *)
(* (analyze_company_news), the search step (search_company_news), the      *)
(* content extractor (extract_article_content) and the analysis helpers    *)
(* (analyze_sentiment, compare_sentiment, extract_topics).                 *)
(*                                                                         *)
(* Python strings are sequences of one-character strings, so that len,     *)
(* strip, lower, slicing, substring tests and the sentence split are       *)
(* computed character by character.                                        *)
(***************************************************************************)
EXTENDS Integers, Sequences, FiniteSets, TLC

(***************************************************************************)
(* Bounds of the model (not program constants).                            *)
(***************************************************************************)
MaxRawResults == 2
MaxArticlesParam == 2
MaxParas == 2
MaxWords == 2
ScoreSteps == 4
MaxCompared == 3

(***************************************************************************)
(* Program constants.                                                      *)
(***************************************************************************)
max_pages == 5
PageSize == 10
StrongShare == 6
StrongCompound == 2000
MaxRetry == 2
MinTextLen == 80
MinPadLen == 30
MinParaLen == 20
MaxSentences == 7
TruncLen == 500
CapLen == 500
CapKeep == 497
PosThreshold == 500
NegThreshold == -500

(***************************************************************************)
(* Strings.                                                                *)
(***************************************************************************)
Chars(n, c) == [i \in 1..n |-> c]

UpperToLower ==
    ("A" :> "a")
    @@ ("B" :> "b")
    @@ ("C" :> "c")
    @@ ("D" :> "d")
    @@ ("E" :> "e")
    @@ ("F" :> "f")
    @@ ("G" :> "g")
    @@ ("H" :> "h")
    @@ ("I" :> "i")
    @@ ("J" :> "j")
    @@ ("K" :> "k")
    @@ ("L" :> "l")
    @@ ("M" :> "m")
    @@ ("N" :> "n")
    @@ ("O" :> "o")
    @@ ("P" :> "p")
    @@ ("Q" :> "q")
    @@ ("R" :> "r")
    @@ ("S" :> "s")
    @@ ("T" :> "t")
    @@ ("U" :> "u")
    @@ ("V" :> "v")
    @@ ("W" :> "w")
    @@ ("X" :> "x")
    @@ ("Y" :> "y")
    @@ ("Z" :> "z")

Lower(s) ==
    [i \in 1..Len(s) |->
        IF s[i] \in DOMAIN UpperToLower THEN UpperToLower[s[i]] ELSE s[i]]

(* Python's  sub in s *)
Contains(s, sub) ==
    \/ sub = <<>>
    \/ \E i \in 1..(Len(s) - Len(sub) + 1) :
          s[i] = sub[1] /\ SubSeq(s, i, i + Len(sub) - 1) = sub

Whitespace == {" ", "\n", "\t"}
Terminators == {".", "!", "?"}

Take(s, n) == SubSeq(s, 1, IF n < Len(s) THEN n ELSE Len(s))

(* Python's  s.strip() *)
Strip(s) ==
    IF \A i \in 1..Len(s) : s[i] \in Whitespace THEN <<>>
    ELSE LET lo == CHOOSE i \in 1..Len(s) :
                      /\ s[i] \notin Whitespace
                      /\ \A j \in 1..(i - 1) : s[j] \in Whitespace
             hi == CHOOSE i \in 1..Len(s) :
                      /\ s[i] \notin Whitespace
                      /\ \A j \in (i + 1)..Len(s) : s[j] \in Whitespace
         IN  SubSeq(s, lo, hi)

RECURSIVE Join(_, _)
Join(parts, sep) ==
    IF parts = <<>> THEN <<>>
    ELSE IF Len(parts) = 1 THEN parts[1]
    ELSE parts[1] \o sep \o Join(Tail(parts), sep)

(***************************************************************************)
(* re.split(r'(?<=[.!?])\s+', text): the text is cut at every maximal run  *)
(* of whitespace that directly follows a sentence terminator; the run      *)
(* itself is dropped.                                                      *)
(***************************************************************************)
RECURSIVE SplitSentences(_)
SplitSentences(s) ==
    LET cuts == {i \in 2..Len(s) :
                    s[i] \in Whitespace /\ s[i - 1] \in Terminators}
    IN  IF cuts = {} THEN <<s>>
        ELSE LET i == CHOOSE c \in cuts : \A d \in cuts : c <= d
                 rest == {j \in (i + 1)..Len(s) : s[j] \notin Whitespace}
             IN  IF rest = {} THEN <<SubSeq(s, 1, i - 1), <<>> >>
                 ELSE LET j == CHOOSE c \in rest : \A d \in rest : c <= d
                      IN  <<SubSeq(s, 1, i - 1)>>
                              \o SplitSentences(SubSeq(s, j, Len(s)))

Ellipsis == <<".", ".", ".">>

(* a summary without the final cap of lines 157-158 *)
SummarizeNoCap(text) ==
    LET sentences == SplitSentences(text)
        s1 == IF Len(sentences) > MaxSentences
              THEN Join(SubSeq(sentences, 1, MaxSentences), <<" ">>)
              ELSE text
    IN  IF Len(s1) < MinTextLen /\ Len(text) > MinTextLen
        THEN (IF Len(text) > TruncLen
              THEN Take(text, TruncLen) \o Ellipsis
              ELSE text)
        ELSE s1

(* lines 151-158: the summary of the body text *)
Summarize(text) ==
    LET sentences == SplitSentences(text)
        s1 == IF Len(sentences) > MaxSentences
              THEN Join(SubSeq(sentences, 1, MaxSentences), <<" ">>)
              ELSE text
        s2 == IF Len(s1) < MinTextLen /\ Len(text) > MinTextLen
              THEN (IF Len(text) > TruncLen
                    THEN Take(text, TruncLen) \o Ellipsis
                    ELSE text)
              ELSE s1
    IN  IF Len(s2) > CapLen THEN Take(s2, CapKeep) \o Ellipsis ELSE s2

(***************************************************************************)
(* A fetched page as BeautifulSoup exposes it to extract_article_content:  *)
(*   hasTitle, title   soup.title and its text                             *)
(*   containers        for each of the 5 locators of lines 124-131, in     *)
(*                     order, whether soup.find gives a tag and the texts  *)
(*                     of the <p> elements inside that tag                 *)
(*   paras             the texts of all <p> elements of the page           *)
(***************************************************************************)
NumLocators == 5

UnknownTitle == <<"U", "n", "k", "n", "o", "w", "n", " ", "T", "i", "t", "l", "e">>

skip_titles ==
    { <<"a", "c", "c", "e", "s", "s", " ", "d", "e", "n", "i", "e", "d">>,
      <<"j", "u", "s", "t", " ", "a", " ", "m", "o", "m", "e", "n", "t">>,
      <<"i", "n", "t", "e", "r", "s", "t", "i", "t", "i", "a", "l">>,
      <<"c", "a", "p", "t", "c", "h", "a">>,
      <<"4", "0", "3", " ", "f", "o", "r", "b", "i", "d", "d", "e", "n">> }

(* lines 104: title = soup.title.text if soup.title else "Unknown Title" *)
PageTitle(page) == IF page.hasTitle THEN page.title ELSE UnknownTitle

(* lines 107, 118: any(skip_title in title.lower() ...) *)
IsBlocked(title) == \E s \in skip_titles : Contains(Lower(title), s)

(* the last locator whose tag exists *)
LocateContentLast(page) ==
    LET hits == {k \in 1..NumLocators : page.containers[k].found}
    IN  IF hits = {} THEN 0 ELSE CHOOSE k \in hits : \A h \in hits : k >= h

(* lines 123-134: index of the first locator whose tag exists, 0 if none *)
LocateContent(page) ==
    LET hits == {k \in 1..NumLocators : page.containers[k].found}
    IN  IF hits = {} THEN 0 ELSE CHOOSE k \in hits : \A h \in hits : k <= h

(* line 139: [p for p in soup.find_all('p') if len(p.text.strip()) > 20] *)
RECURSIVE LongParagraphs(_)
LongParagraphs(ps) ==
    IF ps = <<>> THEN <<>>
    ELSE (IF Len(Strip(Head(ps))) > MinParaLen THEN <<Head(ps)>> ELSE <<>>)
            \o LongParagraphs(Tail(ps))

(* lines 136-139 *)
Paragraphs(page) ==
    LET k == LocateContent(page)
    IN  IF k # 0 THEN page.containers[k].paras
        ELSE LongParagraphs(page.paras)

(* line 141: ' '.join([p.text.strip() for p in paragraphs]) *)
JoinedText(page) ==
    LET ps == Paragraphs(page)
    IN  Join([i \in 1..Len(ps) |-> Strip(ps[i])], <<" ">>)

InvalidContent == [valid |-> FALSE]

(* lines 144-146: the joined text has more than 30 characters *)
SufficientContent(page) ==
    LET joined == JoinedText(page)
    IN  Len(Strip(joined)) > MinPadLen

(* an attempt that never pads a short text with the title *)
ExtractFromSoupNoPad(page) ==
    LET title == PageTitle(page)
        joined == JoinedText(page)
    IN  IF Len(Strip(joined)) < MinTextLen /\ ~(Len(Strip(joined)) > MinPadLen)
        THEN InvalidContent
        ELSE [valid |-> TRUE, title |-> title, text |-> joined,
              summary |-> Summarize(joined)]

(* lines 123-165: the part of one attempt that follows the block check *)
ExtractFromSoup(page) ==
    LET title == PageTitle(page)
        joined == JoinedText(page)
    IN  IF Len(Strip(joined)) < MinTextLen /\ ~(Len(Strip(joined)) > MinPadLen)
        THEN InvalidContent
        ELSE LET text == IF Len(Strip(joined)) < MinTextLen
                         THEN title \o <<".", " ">> \o joined
                         ELSE joined
             IN  [valid |-> TRUE, title |-> title, text |-> text,
                  summary |-> Summarize(text)]

ExtractionFailedTitle == <<"E", "x", "t", "r", "a", "c", "t", "i", "o", "n", " ", "F", "a", "i", "l", "e", "d">>
CouldNotExtract == <<"C", "o", "u", "l", "d", " ", "n", "o", "t", " ", "e", "x", "t", "r", "a", "c", "t", " ", "c", "o", "n", "t", "e", "n", "t", " ", "f", "r", "o", "m", " ", "t", "h", "i", "s", " ", "U", "R", "L", ".", " ", "E", "r", "r", "o", "r", ":", " ">>

(* lines 172-177: the result when the last attempt raised *)
FailedContent(err) ==
    [valid |-> FALSE, title |-> ExtractionFailedTitle, text |-> <<>>,
     summary |-> CouldNotExtract \o err]

(* a scorer that returns the zero scores for every text *)
analyze_sentiment_zero(text, scores) ==
    [compound |-> 0, pos |-> 0, neg |-> 0, neu |-> 0, label |-> "neutral"]

(* a scorer with a fourth label *)
analyze_sentiment_mixed(text, scores) ==
    IF text = <<>>
    THEN [compound |-> 0, pos |-> 0, neg |-> 0, neu |-> 0, label |-> "neutral"]
    ELSE [compound |-> scores.compound,
          pos |-> scores.pos, neg |-> scores.neg, neu |-> scores.neu,
          label |-> IF scores.compound >= PosThreshold THEN "positive"
                    ELSE IF scores.compound <= NegThreshold THEN "negative"
                    ELSE IF scores.compound = 0 THEN "neutral"
                    ELSE "mixed"]

(***************************************************************************)
(* analyze_sentiment (lines 299-319).  scores is what the lexicon scorer   *)
(* sia.polarity_scores(text) returns: compound in ten-thousandths          *)
(* (-10000..10000), pos, neg and neu in thousandths.                       *)
(***************************************************************************)
analyze_sentiment(text, scores) ==
    IF text = <<>>
    THEN [compound |-> 0, pos |-> 0, neg |-> 0, neu |-> 0, label |-> "neutral"]
    ELSE [compound |-> scores.compound,
          pos |-> scores.pos, neg |-> scores.neg, neu |-> scores.neu,
          label |-> IF scores.compound >= PosThreshold THEN "positive"
                    ELSE IF scores.compound <= NegThreshold THEN "negative"
                    ELSE "neutral"]

Count(labels, l) == Cardinality({i \in 1..Len(labels) : labels[i] = l})

(* compare_sentiment (lines 321-336) *)
compare_sentiment(articles) ==
    IF articles = <<>>
    THEN [sentiment_distribution |->
             [positive |-> 0, neutral |-> 0, negative |-> 0]]
    ELSE LET sentiment_labels ==
                 [i \in 1..Len(articles) |-> articles[i].sentiment.label]
         IN  [sentiment_distribution |->
                 [positive |-> Count(sentiment_labels, "positive"),
                  neutral |-> Count(sentiment_labels, "neutral"),
                  negative |-> Count(sentiment_labels, "negative")]]

(***************************************************************************)
(* analyze_coverage_differences (lines 367-386).  An entry of the list is  *)
(* given by what its two texts are built from: the numbers i and j of the  *)
(* two articles (1-based, as printed), their sentiment labels, and for     *)
(* each side the phrase of the Impact text.                                *)
(***************************************************************************)
ImpactPhrase(label) ==
    IF label = "positive" THEN "boost confidence" ELSE "raise concerns"

(* lines 375-384: the entry appended for the pair (i, j) *)
DifferenceEntry(articles, i, j) ==
    [i |-> i, j |-> j,
     sentiment1 |-> articles[i].sentiment.label,
     sentiment2 |-> articles[j].sentiment.label,
     impact1 |-> ImpactPhrase(articles[i].sentiment.label),
     impact2 |-> ImpactPhrase(articles[j].sentiment.label)]

(* line 374: for j in range(i + 1, len(articles)) *)
RECURSIVE InnerLoop(_, _, _, _)
InnerLoop(articles, i, j, differences) ==
    IF j > Len(articles) THEN differences
    ELSE InnerLoop(articles, i, j + 1,
                   Append(differences, DifferenceEntry(articles, i, j)))

(* line 373: for i in range(len(articles)) *)
RECURSIVE OuterLoop(_, _, _)
OuterLoop(articles, i, differences) ==
    IF i > Len(articles) THEN differences
    ELSE OuterLoop(articles, i + 1, InnerLoop(articles, i, i + 1, differences))

(* a pairing that starts at the second article *)
coverage_differences_skip_first(articles) ==
    IF Len(articles) < 2 THEN <<>>
    ELSE OuterLoop(articles, 2, <<>>)

analyze_coverage_differences(articles) ==
    IF Len(articles) < 2 THEN <<>>
    ELSE OuterLoop(articles, 1, <<>>)

(***************************************************************************)
(* analyze_topic_overlap (lines 388-416).  The topic lists are taken as    *)
(* sets (line 394).                                                        *)
(***************************************************************************)
(* lines 404-406: the number of articles that hold the topic *)
topic_counts(all_topics, topic) ==
    Cardinality({i \in 1..Len(all_topics) : topic \in all_topics[i]})

(* an overlap analysis without the fallback of line 411 *)
analyze_topic_overlap_no_fallback(articles) ==
    IF articles = <<>>
    THEN [common_topics |-> {}, unique_topics |-> <<>>]
    ELSE LET all_topics == [i \in 1..Len(articles) |-> articles[i].topics]
         IN  [common_topics |->
                 {t \in all_topics[1] :
                     \A i \in 1..Len(all_topics) : t \in all_topics[i]},
              unique_topics |->
                 [i \in 1..Len(all_topics) |->
                     {t \in all_topics[i] : topic_counts(all_topics, t) = 1}]]

analyze_topic_overlap(articles) ==
    IF articles = <<>>
    THEN [common_topics |-> {}, unique_topics |-> <<>>]
    ELSE LET all_topics == [i \in 1..Len(articles) |-> articles[i].topics]
         IN  [common_topics |->
                 {t \in all_topics[1] :
                     \A i \in 1..Len(all_topics) : t \in all_topics[i]},
              unique_topics |->
                 [i \in 1..Len(all_topics) |->
                     LET unique == {t \in all_topics[i] :
                                       topic_counts(all_topics, t) = 1}
                     IN  IF unique # {} THEN unique ELSE all_topics[i]]]

(***************************************************************************)
(* generate_final_sentiment (lines 418-451).  scores is what the lexicon   *)
(* scorer returns for the combined summary.  The result is the verdict     *)
(* sentence the text ends with.  A share k / total is above 0.6 when       *)
(* 10 * k > StrongShare * total; the compound score is in ten-thousandths. *)
(***************************************************************************)
(* line 433: " ".join(summaries) *)
CombinedSummary(articles) ==
    Join([i \in 1..Len(articles) |-> articles[i].summary], <<" ">>)

(* a verdict whose rules are tried in the order leans, then strongly *)
generate_final_sentiment_leans_first(articles, scores) ==
    IF articles = <<>> THEN "no sufficient data"
    ELSE LET dist == compare_sentiment(articles).sentiment_distribution
             total == dist.positive + dist.neutral + dist.negative
             compound_score ==
                 analyze_sentiment(CombinedSummary(articles), scores).compound
         IN  IF total = 0 THEN "inconclusive"
             ELSE IF dist.positive > dist.negative /\ compound_score > 0
                  THEN "leans positive"
             ELSE IF dist.negative > dist.positive /\ compound_score < 0
                  THEN "leans negative"
             ELSE IF 10 * dist.positive > StrongShare * total
                     /\ compound_score > StrongCompound
                  THEN "strongly positive"
             ELSE IF 10 * dist.negative > StrongShare * total
                     /\ compound_score < -StrongCompound
                  THEN "strongly negative"
             ELSE "balanced"

generate_final_sentiment(articles, scores) ==
    IF articles = <<>> THEN "no sufficient data"
    ELSE LET dist == compare_sentiment(articles).sentiment_distribution
             total == dist.positive + dist.neutral + dist.negative
             compound_score ==
                 analyze_sentiment(CombinedSummary(articles), scores).compound
         IN  IF total = 0 THEN "inconclusive"
             ELSE IF 10 * dist.positive > StrongShare * total
                     /\ compound_score > StrongCompound
                  THEN "strongly positive"
             ELSE IF 10 * dist.negative > StrongShare * total
                     /\ compound_score < -StrongCompound
                  THEN "strongly negative"
             ELSE IF dist.positive > dist.negative /\ compound_score > 0
                  THEN "leans positive"
             ELSE IF dist.negative > dist.positive /\ compound_score < 0
                  THEN "leans negative"
             ELSE "balanced"

(***************************************************************************)
(* extract_topics (lines 338-365).  ents is doc.ents as the entity         *)
(* recogniser returns it: a set of [text, label] spans of the summary.     *)
(***************************************************************************)
EntityLabels == {"ORG", "PRODUCT", "EVENT", "LAW", "GPE"}

topic_categories ==
    ("Electric Vehicles" :>
         { <<"e", "l", "e", "c", "t", "r", "i", "c", " ", "v", "e", "h", "i", "c", "l", "e">>,
           <<"e", "v">>,
           <<"b", "a", "t", "t", "e", "r", "y">>,
           <<"t", "e", "s", "l", "a", " ", "m", "o", "d", "e", "l">> })
    @@ ("Stock Market" :>
         { <<"s", "t", "o", "c", "k">>,
           <<"m", "a", "r", "k", "e", "t">>,
           <<"s", "h", "a", "r", "e", "s">>,
           <<"i", "n", "v", "e", "s", "t">>,
           <<"t", "r", "a", "d", "i", "n", "g">> })
    @@ ("Innovation" :>
         { <<"i", "n", "n", "o", "v", "a", "t", "i", "o", "n">>,
           <<"t", "e", "c", "h", "n", "o", "l", "o", "g", "y">>,
           <<"n", "e", "w", " ", "p", "r", "o", "d", "u", "c", "t">>,
           <<"r", "e", "s", "e", "a", "r", "c", "h">> })
    @@ ("Regulations" :>
         { <<"r", "e", "g", "u", "l", "a", "t", "i", "o", "n">>,
           <<"r", "e", "g", "u", "l", "a", "t", "o", "r", "y">>,
           <<"l", "a", "w">>,
           <<"p", "o", "l", "i", "c", "y">>,
           <<"c", "o", "m", "p", "l", "i", "a", "n", "c", "e">> })
    @@ ("Autonomous Vehicles" :>
         { <<"a", "u", "t", "o", "n", "o", "m", "o", "u", "s">>,
           <<"s", "e", "l", "f", "-", "d", "r", "i", "v", "i", "n", "g">>,
           <<"d", "r", "i", "v", "e", "r", "l", "e", "s", "s">>,
           <<"a", "u", "t", "o", "p", "i", "l", "o", "t">> })
    @@ ("Financial" :>
         { <<"f", "i", "n", "a", "n", "c", "i", "a", "l">>,
           <<"r", "e", "v", "e", "n", "u", "e">>,
           <<"p", "r", "o", "f", "i", "t">>,
           <<"s", "a", "l", "e", "s">>,
           <<"e", "a", "r", "n", "i", "n", "g", "s">> })
    @@ ("Partnerships" :>
         { <<"p", "a", "r", "t", "n", "e", "r", "s", "h", "i", "p">>,
           <<"c", "o", "l", "l", "a", "b", "o", "r", "a", "t", "i", "o", "n">>,
           <<"d", "e", "a", "l">>,
           <<"a", "g", "r", "e", "e", "m", "e", "n", "t">> })
    @@ ("Legal" :>
         { <<"l", "a", "w", "s", "u", "i", "t">>,
           <<"l", "e", "g", "a", "l">>,
           <<"c", "o", "u", "r", "t">>,
           <<"d", "i", "s", "p", "u", "t", "e">> })

GeneralNews == {"General News"}

(* lines 360-363: the topics whose condition holds *)
MatchedTopics(summary, ents) ==
    LET entities == {Lower(e.text) : e \in {d \in ents : d.label \in EntityLabels}}
        summary_lower == Lower(summary)
        matches(topic) ==
            \/ \E keyword \in topic_categories[topic] :
                   Contains(summary_lower, keyword)
            \/ \E entity \in entities :
                   /\ \E keyword \in topic_categories[topic] :
                         Contains(entity, keyword)
                   /\ Contains(summary_lower, entity)
    IN  {topic : topic \in {t \in DOMAIN topic_categories : matches(t)}}

(* a classifier without the fallback of line 365 *)
extract_topics_no_fallback(summary, ents) ==
    IF summary = <<>> THEN GeneralNews
    ELSE MatchedTopics(summary, ents)

extract_topics(summary, ents) ==
    IF summary = <<>> THEN GeneralNews
    ELSE LET topics == MatchedTopics(summary, ents)
         IN  IF topics # {} THEN topics ELSE GeneralNews

(***************************************************************************)
(* Sample strings from which the inputs are drawn.                         *)
(***************************************************************************)
(* "Acme earnings" *)
T_news == <<"A", "c", "m", "e", " ", "e", "a", "r", "n", "i", "n", "g", "s">>
(* "Just a Moment..." *)
T_moment == <<"J", "u", "s", "t", " ", "a", " ", "M", "o", "m", "e", "n", "t", ".", ".", ".">>
(* "Access Denied" *)
T_denied == <<"A", "c", "c", "e", "s", "s", " ", "D", "e", "n", "i", "e", "d">>
(* "Acme posts record Revenue today." *)
P_rev == <<"A", "c", "m", "e", " ", "p", "o", "s", "t", "s", " ", "r", "e", "c", "o", "r", "d", " ", "R", "e", "v", "e", "n", "u", "e", " ", "t", "o", "d", "a", "y", ".">>
(* "Weather stays mild for the region." *)
P_mild == <<"W", "e", "a", "t", "h", "e", "r", " ", "s", "t", "a", "y", "s", " ", "m", "i", "l", "d", " ", "f", "o", "r", " ", "t", "h", "e", " ", "r", "e", "g", "i", "o", "n", ".">>
(* "Short." *)
P_tiny == <<"S", "h", "o", "r", "t", ".">>
(* "  " *)
P_blank == <<" ", " ">>
(* "Hi. Hi. Hi. Hi. Hi. Hi. Hi. Hi." *)
P_many == <<"H", "i", ".", " ", "H", "i", ".", " ", "H", "i", ".", " ", "H", "i", ".", " ", "H", "i", ".", " ", "H", "i", ".", " ", "H", "i", ".", " ", "H", "i", ".">>
(* "timed out" *)
E_timeout == <<"t", "i", "m", "e", "d", " ", "o", "u", "t">>
(* "reset" *)
E_reset == <<"r", "e", "s", "e", "t">>
(* "Acme" *)
W_Acme == <<"A", "c", "m", "e">>
(* "Revenue" *)
W_Revenue == <<"R", "e", "v", "e", "n", "u", "e">>
(* "lawsuit" *)
W_lawsuit == <<"l", "a", "w", "s", "u", "i", "t">>
(* "EV" *)
W_EV == <<"E", "V">>
(* "weather" *)
W_weather == <<"w", "e", "a", "t", "h", "e", "r">>
(* "Tesla Model" *)
W_Tesla_Model == <<"T", "e", "s", "l", "a", " ", "M", "o", "d", "e", "l">>
(* "deal" *)
W_deal == <<"d", "e", "a", "l">>
(* "rain" *)
W_rain == <<"r", "a", "i", "n">>
P_long == Chars(99, "a") \o <<".">>
P_huge == Chars(600, "a") \o <<>>

(* the sequences of at most n elements of S *)
SeqsUpTo(S, n) == UNION {[1..k -> S] : k \in 0..n}

(***************************************************************************)
(* Pages.  The <p> elements of a container are among the <p> elements of   *)
(* the page, so a page with containers lists their paragraphs in paras.    *)
(***************************************************************************)
Errors == {E_timeout, E_reset}
ParaPool == {P_rev, P_mild, P_tiny, P_blank, P_many, P_long, P_huge}

ContainerParas ==
    <<  <<P_rev>>, <<P_long>>, <<>>, <<P_tiny, P_mild>>, <<P_many, P_huge>>  >>

RECURSIVE Flatten(_)
Flatten(ss) == IF ss = <<>> THEN <<>> ELSE ss[1] \o Flatten(Tail(ss))

PageWith(hasTitle, title, found, paras) ==
    [hasTitle |-> hasTitle, title |-> title,
     containers |-> [k \in 1..NumLocators |->
                        [found |-> k \in found,
                         paras |-> IF k \in found THEN ContainerParas[k] ELSE <<>>]],
     paras |-> Flatten([k \in 1..NumLocators |->
                          IF k \in found THEN ContainerParas[k] ELSE <<>>])
               \o paras]

(* pages with a block title: what is below the title is never read *)
BlockedPages ==
    {PageWith(TRUE, t, {}, ps) : t \in {T_moment, T_denied}, ps \in {<<>>, <<P_long>>}}

(* pages without a block title, with every body *)
OpenPages ==
    LET heads == {<<TRUE, T_news>>, <<FALSE, <<>> >>}
    IN  {PageWith(h[1], h[2], {}, ps) : h \in heads, ps \in SeqsUpTo(ParaPool, MaxParas)}
        \cup {PageWith(h[1], h[2], f, <<>>) :
                 h \in heads, f \in (SUBSET (1..NumLocators)) \ {{}}}

(* bodies whose joined text is at the limits of lines 144 and 146, alone   *)
(* and next to an empty <p>                                               *)
BoundaryBodies ==
    {<<Chars(n, "a")>> : n \in {MinPadLen, MinPadLen + 1, MinTextLen - 1, MinTextLen}}
        \cup {<<P_blank, Chars(MinPadLen, "a")>>, <<Chars(MinTextLen - 1, "a"), P_blank>>}

(* pages whose <article> element holds one of these bodies *)
BoundaryPages ==
    {[hasTitle |-> TRUE, title |-> T_news,
      containers |-> [k \in 1..NumLocators |->
                         [found |-> k = 1, paras |-> IF k = 1 THEN ps ELSE <<>>]],
      paras |-> ps] : ps \in BoundaryBodies}

AllPages == BlockedPages \cup OpenPages \cup BoundaryPages

(* the pages served during a run of the controller *)
RunPages ==
    { PageWith(TRUE, T_moment, {}, <<P_long>>),
      PageWith(TRUE, T_news, {}, <<P_tiny>>),
      PageWith(TRUE, T_news, {}, <<P_rev>>) }

(* what the lexicon scorer may return for a non-empty text *)
RunScores ==
    { [compound |-> 500, pos |-> 200, neg |-> 0, neu |-> 800],
      [compound |-> 499, pos |-> 100, neg |-> 100, neu |-> 800],
      [compound |-> -500, pos |-> 0, neg |-> 200, neu |-> 800] }

(* what the entity recogniser may return *)
EntityPool ==
    { [text |-> W_Acme, label |-> "ORG"],
      [text |-> W_Tesla_Model, label |-> "PRODUCT"],
      [text |-> W_Revenue, label |-> "PERSON"] }

EntsOf(summary) == SUBSET {e \in EntityPool : Contains(summary, e.text)}

(***************************************************************************)
(* Search results.  A raw result is one news block of the results page:    *)
(* its headline and its link after the /url? unwrapping of lines 72-77     *)
(* (NoLink, the empty string, when there is no usable link).                *)
(***************************************************************************)
NoLink == ""
Urls == {"u1", "u2"}
HttpOk == 200
OtherStatuses == {429, 503}

RawResults ==
    SeqsUpTo([headline : {T_news, T_denied}, link : Urls \cup {NoLink}], MaxRawResults)

(* a response of the provider: the request raised (kind "error"), or it     *)
(* returned a status and a results page (kind "http")                      *)
SearchResponses ==
    {[kind |-> "error", status |-> 0, results |-> <<>>]}
        \cup {[kind |-> "http", status |-> st, results |-> r] :
                 st \in OtherStatuses, r \in {q \in RawResults : Len(q) <= 1}}
        \cup {[kind |-> "http", status |-> HttpOk, results |-> r] : r \in RawResults}

(* lines 61-85: the loop over the news blocks *)
RECURSIVE ParseResults(_, _)
ParseResults(divs, articles) ==
    IF divs = <<>> THEN articles
    ELSE LET div == Head(divs)
             keep == /\ ~IsBlocked(div.headline)
                     /\ div.link # NoLink
                     /\ ~\E i \in 1..Len(articles) : articles[i].url = div.link
         IN  ParseResults(Tail(divs),
                 IF keep
                 THEN Append(articles, [title |-> div.headline, url |-> div.link])
                 ELSE articles)

(* a search step that parses the page whatever the status *)
search_ignoring_status(resp) ==
    IF resp.kind = "error" THEN <<>>
    ELSE ParseResults(resp.results, <<>>)

(* line 46: the result offset of the request for a page; page 0 is asked  *)
(* without a start parameter                                                *)
(* an offset that is one page ahead *)
StartParamAhead(p) == (p + 1) * PageSize

StartParam(p) == IF p > 0 THEN p * PageSize ELSE 0

(* search_company_news (lines 54-88) on the provider's response *)
search_company_news(resp) ==
    IF resp.kind = "error" THEN <<>>
    ELSE IF resp.status # HttpOk THEN <<>>
    ELSE ParseResults(resp.results, <<>>)

(* the calls of search_company_news: a response and the list returned for it *)
SearchCalls ==
    {[status |-> [kind |-> r.kind, status |-> r.status],
      articles |-> search_company_news(r)] : r \in SearchResponses}

(***************************************************************************)
(* State.                                                                  *)
(*   analyze_company_news: min_articles, max_articles, valid_articles,     *)
(*     page, fetched_articles, idx (1-based position of the for loop),     *)
(*     pc (where the controller is), warned, result                        *)
(*   extract_article_content: retry_count, epc (where the call is),        *)
(*     content (its return value), and the counters of one top-level call: *)
(*     attempts (entries into the try block), gets (requests with the      *)
(*     first header), alt_gets (requests with the second header), sleeps,  *)
(*     soup (the page parsed last in the current attempt)                  *)
(*   search_company_news: search_status (how the last search request       *)
(*     ended: kind "none" before the first, "error" when it raised,        *)
(*     "http" with the status when it returned), searches (the number of   *)
(*     search requests of the run), start (the result offset of the last   *)
(*     search request)                                                     *)
(*   extracted: the urls extract_article_content was called with by the    *)
(*     run                                                                 *)
(*   hcall: a call of an analysis helper on its own (analyze_sentiment,    *)
(*     analyze_coverage_differences, analyze_topic_overlap,                *)
(*     generate_final_sentiment): its arguments and, once it has           *)
(*     returned, its result                                                *)
(*   extract_topics: tcall (a call on its own: its arguments and, once     *)
(*     it has returned, its result)                                        *)
(***************************************************************************)
VARIABLES min_articles, max_articles, valid_articles, page, fetched_articles,
          idx, pc, warned, result, search_status, searches, start, extracted,
          retry_count, epc, content, attempts, gets, alt_gets, sleeps, soup,
          tcall, hcall

ctrl == <<min_articles, max_articles, valid_articles, page, fetched_articles,
          idx, pc, warned, result, search_status, searches, start, extracted>>
extr == <<retry_count, epc, content, attempts, gets, alt_gets, sleeps, soup>>
vars == <<ctrl, extr, tcall, hcall>>

Pending == [kind |-> "pending"]
None == [kind |-> "None"]

NoSearch == [kind |-> "none", status |-> 0]
NoSoup == PageWith(FALSE, <<>>, {}, <<>>)
NoHelperCall == [fn |-> "none", state |-> "none"]
NoCall == [state |-> "none", summary |-> <<>>, ents |-> {}, topics |-> {}]

ExtractorIdle ==
    /\ soup = NoSoup
    /\ retry_count = 0
    /\ epc = "idle"
    /\ content = InvalidContent
    /\ attempts = 0
    /\ gets = 0
    /\ alt_gets = 0
    /\ sleeps = 0

(* lines 191-198, with the parameters the form of lines 275-277 allows *)
Init ==
    /\ max_articles \in 1..MaxArticlesParam
    /\ min_articles \in 1..max_articles
    /\ valid_articles = <<>>
    /\ page = 0
    /\ fetched_articles = <<>>
    /\ idx = 0
    /\ pc = "while"
    /\ warned = FALSE
    /\ result = Pending
    /\ search_status = NoSearch
    /\ searches = 0
    /\ start = 0
    /\ extracted = {}
    /\ ExtractorIdle
    /\ tcall = NoCall
    /\ hcall = NoHelperCall

(***************************************************************************)
(* extract_article_content                                                 *)
(***************************************************************************)
(* lines 90-95: entry with retry count rc *)
Enter(rc) ==
    /\ retry_count' = rc
    /\ IF rc > MaxRetry
       THEN /\ content' = InvalidContent
            /\ epc' = "ret"
            /\ attempts' = attempts
       ELSE /\ content' = content
            /\ epc' = "fetch"
            /\ attempts' = attempts + 1

(* an except handler that retries whatever the retry count *)
HandleExceptionAlwaysRetry(err) ==
    /\ soup' = NoSoup
    /\ sleeps' = sleeps + 1
    /\ Enter(retry_count + 1)

(* lines 166-177: the except handler; a retry is a new call, whose soup   *)
(* is not yet bound                                                        *)
HandleException(err) ==
    /\ soup' = NoSoup
    /\ IF retry_count < MaxRetry
       THEN /\ sleeps' = sleeps + 1
            /\ Enter(retry_count + 1)
       ELSE /\ content' = FailedContent(err)
            /\ epc' = "ret"
            /\ UNCHANGED <<retry_count, attempts, sleeps>>

(* line 101 or 102 raises *)
FetchRaises ==
    /\ epc = "fetch"
    /\ gets' = gets + 1
    /\ \E err \in Errors : HandleException(err)
    /\ UNCHANGED <<ctrl, tcall, hcall, alt_gets>>

(* a block title that leads to a second request on every attempt *)
FetchBlockedAlwaysRefetch(pages) ==
    /\ epc = "fetch"
    /\ \E p \in pages :
          /\ IsBlocked(PageTitle(p))
          /\ soup' = p
          /\ gets' = gets + 1
          /\ sleeps' = sleeps + 1
          /\ epc' = "refetch"
          /\ content' = content
    /\ UNCHANGED <<ctrl, tcall, hcall, retry_count, attempts, alt_gets>>

(* lines 101-121: the page of the first request has a block title *)
FetchBlocked(pages) ==
    /\ epc = "fetch"
    /\ \E p \in pages :
          /\ IsBlocked(PageTitle(p))
          /\ soup' = p
          /\ gets' = gets + 1
          /\ IF retry_count < MaxRetry
             THEN /\ sleeps' = sleeps + 1
                  /\ epc' = "refetch"
                  /\ content' = content
             ELSE /\ sleeps' = sleeps
                  /\ epc' = "ret"
                  /\ content' = InvalidContent
    /\ UNCHANGED <<ctrl, tcall, hcall, retry_count, attempts, alt_gets>>

(* lines 101-107, 123-165: the page of the first request is not blocked *)
FetchOk(pages) ==
    /\ epc = "fetch"
    /\ \E p \in pages :
          /\ ~IsBlocked(PageTitle(p))
          /\ soup' = p
          /\ gets' = gets + 1
          /\ content' = ExtractFromSoup(p)
          /\ epc' = "ret"
    /\ UNCHANGED <<ctrl, tcall, hcall, retry_count, attempts, alt_gets, sleeps>>

(* line 115 or 116 raises *)
RefetchRaises ==
    /\ epc = "refetch"
    /\ alt_gets' = alt_gets + 1
    /\ \E err \in Errors : HandleException(err)
    /\ UNCHANGED <<ctrl, tcall, hcall, gets>>

(* a second request whose block title is not looked at *)
RefetchBlockedIgnored(pages) ==
    /\ epc = "refetch"
    /\ \E p \in pages :
          /\ IsBlocked(PageTitle(p))
          /\ soup' = p
          /\ alt_gets' = alt_gets + 1
          /\ content' = ExtractFromSoup(p)
          /\ epc' = "ret"
    /\ UNCHANGED <<ctrl, tcall, hcall, retry_count, attempts, gets, sleeps>>

(* lines 115-119: the page of the second request has a block title too *)
RefetchBlocked(pages) ==
    /\ epc = "refetch"
    /\ \E p \in pages :
          /\ IsBlocked(PageTitle(p))
          /\ soup' = p
          /\ alt_gets' = alt_gets + 1
          /\ content' = InvalidContent
          /\ epc' = "ret"
    /\ UNCHANGED <<ctrl, tcall, hcall, retry_count, attempts, gets, sleeps>>

(* lines 115-118, 123-165: the page of the second request is not blocked *)
RefetchOk(pages) ==
    /\ epc = "refetch"
    /\ \E p \in pages :
          /\ ~IsBlocked(PageTitle(p))
          /\ soup' = p
          /\ alt_gets' = alt_gets + 1
          /\ content' = ExtractFromSoup(p)
          /\ epc' = "ret"
    /\ UNCHANGED <<ctrl, tcall, hcall, retry_count, attempts, gets, sleeps>>

(***************************************************************************)
(* analyze_company_news                                                    *)
(***************************************************************************)
(* the loop condition without its quota test *)
LoopConditionNoQuota == page < max_pages

(* line 200: the condition of the while loop *)
LoopCondition == Len(valid_articles) < max_articles /\ page < max_pages

(* an empty page 0 that ends the loop *)
SearchEmptyFirstBreaks ==
    /\ pc = "while"
    /\ LoopCondition
    /\ \E call \in SearchCalls :
          /\ call.articles = <<>>
          /\ search_status' = call.status
          /\ searches' = searches + 1
          /\ start' = StartParam(page)
          /\ ~(page > 0)
          /\ pc' = "post"
    /\ UNCHANGED <<tcall, hcall, extracted, min_articles, max_articles, valid_articles, page,
                   fetched_articles, idx, warned, result, extr>>

(* lines 200-216: a search whose page gives no candidate, on page 0 *)
SearchEmptyFirst ==
    /\ pc = "while"
    /\ LoopCondition
    /\ \E call \in SearchCalls :
          /\ call.articles = <<>>
          /\ search_status' = call.status
          /\ searches' = searches + 1
          /\ start' = StartParam(page)
          /\ ~(page > 0)
          /\ page' = page + 1
    /\ UNCHANGED <<tcall, hcall, extracted, min_articles, max_articles, valid_articles,
                   fetched_articles, idx, pc, warned, result, extr>>

(* lines 200-213: a search whose page gives no candidate, after page 0 *)
SearchEmptyLater ==
    /\ pc = "while"
    /\ LoopCondition
    /\ \E call \in SearchCalls :
          /\ call.articles = <<>>
          /\ search_status' = call.status
          /\ searches' = searches + 1
          /\ start' = StartParam(page)
          /\ page > 0
          /\ pc' = "post"
    /\ UNCHANGED <<tcall, hcall, extracted, min_articles, max_articles, valid_articles, page,
                   fetched_articles, idx, warned, result, extr>>

(* lines 200-219: a search that gives candidates *)
SearchFound ==
    /\ pc = "while"
    /\ LoopCondition
    /\ \E call \in SearchCalls :
          /\ call.articles # <<>>
          /\ search_status' = call.status
          /\ searches' = searches + 1
          /\ start' = StartParam(page)
          /\ fetched_articles' = call.articles
          /\ idx' = 1
          /\ pc' = "for"
    /\ UNCHANGED <<tcall, hcall, extracted, min_articles, max_articles, valid_articles, page, warned,
                   result, extr>>

(* line 200: the loop condition fails *)
WhileExit ==
    /\ pc = "while"
    /\ ~LoopCondition
    /\ pc' = "post"
    /\ UNCHANGED <<tcall, hcall, extracted, search_status, searches, start, min_articles,
                   max_articles, valid_articles, page,
                   fetched_articles, idx, warned, result, extr>>

(* a for loop that ends without moving to the next page *)
ForEndSamePage ==
    /\ pc = "for"
    /\ idx > Len(fetched_articles)
    /\ fetched_articles' = <<>>
    /\ idx' = 0
    /\ pc' = "while"
    /\ UNCHANGED <<tcall, hcall, extracted, search_status, searches, start, min_articles,
                   max_articles, valid_articles, page, warned, result, extr>>

(* lines 219, 251: the for loop is exhausted *)
ForEnd ==
    /\ pc = "for"
    /\ idx > Len(fetched_articles)
    /\ page' = page + 1
    /\ fetched_articles' = <<>>
    /\ idx' = 0
    /\ pc' = "while"
    /\ UNCHANGED <<tcall, hcall, extracted, search_status, searches, start, min_articles,
                   max_articles, valid_articles, warned, result, extr>>

(* lines 224-225, 251: the quota is reached inside the for loop *)
ForBreak ==
    /\ pc = "for"
    /\ idx <= Len(fetched_articles)
    /\ Len(valid_articles) >= max_articles
    /\ page' = page + 1
    /\ fetched_articles' = <<>>
    /\ idx' = 0
    /\ pc' = "while"
    /\ UNCHANGED <<tcall, hcall, extracted, search_status, searches, start, min_articles,
                   max_articles, valid_articles, warned, result, extr>>

(* lines 219-231: the next candidate is handed to the extractor *)
CallExtract ==
    /\ pc = "for"
    /\ idx <= Len(fetched_articles)
    /\ ~(Len(valid_articles) >= max_articles)
    /\ pc' = "extract"
    /\ extracted' = extracted \cup {fetched_articles[idx].url}
    /\ Enter(0)
    /\ UNCHANGED <<tcall, hcall, search_status, searches, start, min_articles,
                   max_articles, valid_articles, page,
                   fetched_articles, idx, warned, result, gets, alt_gets, sleeps,
                   soup>>

(* back at the head of the for loop, the call's frame is gone *)
NextCandidate ==
    /\ idx' = idx + 1
    /\ pc' = "for"
    /\ soup' = NoSoup
    /\ retry_count' = 0
    /\ epc' = "idle"
    /\ content' = InvalidContent
    /\ attempts' = 0
    /\ gets' = 0
    /\ alt_gets' = 0
    /\ sleeps' = 0

(* lines 233-241: valid content is scored, classified and accepted *)
AcceptArticle ==
    /\ pc = "extract"
    /\ epc = "ret"
    /\ content.valid
    /\ \E ents \in EntsOf(content.summary) :
          LET topics == extract_topics(content.summary, ents)
          IN  \E scores \in RunScores :
             valid_articles' =
                Append(valid_articles,
                       [title |-> content.title,
                        url |-> fetched_articles[idx].url,
                        text |-> content.text,
                        summary |-> content.summary,
                        topics |-> topics,
                        sentiment |-> analyze_sentiment(content.text, scores)])
    /\ NextCandidate
    /\ UNCHANGED <<tcall, hcall, extracted, search_status, searches, start, min_articles,
                   max_articles, page, fetched_articles, warned, result>>

(* lines 238-248: extract_topics or analyze_sentiment raises *)
ProcessRaises ==
    /\ pc = "extract"
    /\ epc = "ret"
    /\ content.valid
    /\ NextCandidate
    /\ UNCHANGED <<tcall, hcall, extracted, search_status, searches, start, min_articles,
                   max_articles, valid_articles, page,
                   fetched_articles, warned, result>>

(* an invalid content that ends the loops *)
RejectInvalidAborts ==
    /\ pc = "extract"
    /\ epc = "ret"
    /\ ~content.valid
    /\ pc' = "post"
    /\ UNCHANGED <<tcall, hcall, extracted, search_status, searches, start, min_articles, max_articles,
                   valid_articles, page, fetched_articles, idx, warned, result,
                   extr>>

(* line 233: the content is not valid *)
RejectInvalid ==
    /\ pc = "extract"
    /\ epc = "ret"
    /\ ~content.valid
    /\ NextCandidate
    /\ UNCHANGED <<tcall, hcall, extracted, search_status, searches, start, min_articles,
                   max_articles, valid_articles, page,
                   fetched_articles, warned, result>>

(* a post-loop step that returns None whenever the minimum is not met *)
FinishNoneBelowMin ==
    /\ pc = "post"
    /\ warned' = (Len(valid_articles) < min_articles)
    /\ result' = IF Len(valid_articles) < min_articles
                 THEN None
                 ELSE [kind |-> "result",
                       articles |-> valid_articles,
                       comparison |-> compare_sentiment(valid_articles)]
    /\ pc' = "done"
    /\ UNCHANGED <<tcall, hcall, extracted, search_status, searches, start, min_articles, max_articles,
                   valid_articles, page, fetched_articles, idx, extr>>

(* lines 253-265 *)
Finish ==
    /\ pc = "post"
    /\ warned' = (Len(valid_articles) < min_articles)
    /\ result' = IF Len(valid_articles) < min_articles /\ Len(valid_articles) = 0
                 THEN None
                 ELSE [kind |-> "result",
                       articles |-> valid_articles,
                       comparison |-> compare_sentiment(valid_articles)]
    /\ pc' = "done"
    /\ UNCHANGED <<tcall, hcall, extracted, search_status, searches, start, min_articles,
                   max_articles, valid_articles, page,
                   fetched_articles, idx, extr>>

Next ==
    \/ SearchEmptyFirst
    \/ SearchEmptyLater
    \/ SearchFound
    \/ WhileExit
    \/ ForEnd
    \/ ForBreak
    \/ CallExtract
    \/ FetchRaises
    \/ FetchBlocked(RunPages)
    \/ FetchOk(RunPages)
    \/ RefetchRaises
    \/ RefetchBlocked(RunPages)
    \/ RefetchOk(RunPages)
    \/ AcceptArticle
    \/ ProcessRaises
    \/ RejectInvalid
    \/ Finish

Spec == Init /\ [][Next]_vars

(* The run is one sequential thread: while it has a step to take it takes  *)
(* one, every request of lines 53, 101 and 115 carrying a timeout.         *)
(* The runs taken are those asked for an exact number of articles:        *)
(* min_articles only sizes the request of line 202 and decides the        *)
(* warning of line 256.                                                    *)
InitFair == Init /\ min_articles = max_articles

FairSpec == InitFair /\ [][Next]_vars /\ WF_vars(Next)

(***************************************************************************)
(* One call extract_article_content(url) on its own: the state right       *)
(* after its entry (lines 90-95 with retry_count = 0), over all pages.     *)
(***************************************************************************)
InitExtract ==
    /\ max_articles = 1
    /\ min_articles = 1
    /\ valid_articles = <<>>
    /\ page = 0
    /\ fetched_articles = <<[title |-> T_news, url |-> "u1"]>>
    /\ idx = 1
    /\ pc = "extract"
    /\ warned = FALSE
    /\ result = Pending
    /\ search_status = [kind |-> "http", status |-> HttpOk]
    /\ searches = 1
    /\ start = 0
    /\ extracted = {"u1"}
    /\ retry_count = 0
    /\ epc = "fetch"
    /\ content = InvalidContent
    /\ attempts = 1
    /\ gets = 0
    /\ alt_gets = 0
    /\ sleeps = 0
    /\ soup = NoSoup
    /\ tcall = NoCall
    /\ hcall = NoHelperCall

NextExtract ==
    \/ FetchRaises
    \/ FetchBlocked(AllPages)
    \/ FetchOk(AllPages)
    \/ RefetchRaises
    \/ RefetchBlocked(AllPages)
    \/ RefetchOk(AllPages)

SpecExtract == InitExtract /\ [][NextExtract]_vars

(***************************************************************************)
(* One call extract_topics(summary) on its own.  The summaries are the     *)
(* texts of at most MaxWords words of the vocabulary, the entities any     *)
(* spans of the summary the recogniser may report.                         *)
(***************************************************************************)
Vocabulary ==
    {W_Acme, W_Revenue, W_lawsuit, W_EV, W_weather, W_Tesla_Model, W_deal, W_rain}

TopicSummaries == {Join(ws, <<" ">>) : ws \in SeqsUpTo(Vocabulary, MaxWords)}

InitTopics ==
    /\ max_articles = 1
    /\ min_articles = 1
    /\ valid_articles = <<>>
    /\ page = 0
    /\ fetched_articles = <<>>
    /\ idx = 0
    /\ pc = "idle"
    /\ warned = FALSE
    /\ result = Pending
    /\ search_status = NoSearch
    /\ searches = 0
    /\ start = 0
    /\ extracted = {}
    /\ ExtractorIdle
    /\ \E summary \in TopicSummaries :
          \E ents \in EntsOf(summary) :
             tcall = [state |-> "called", summary |-> summary, ents |-> ents,
                      topics |-> {}]
    /\ hcall = NoHelperCall

(* lines 338-365: the call runs to its return *)
ExtractTopics ==
    /\ tcall.state = "called"
    /\ tcall' = [tcall EXCEPT !.state = "returned",
                              !.topics = extract_topics(tcall.summary, tcall.ents)]
    /\ UNCHANGED <<ctrl, extr, hcall>>

NextTopics == ExtractTopics

SpecTopics == InitTopics /\ [][NextTopics]_vars

(***************************************************************************)
(* One call analyze_sentiment(text) on its own.  The lexicon scorer gives  *)
(* proportions pos, neg and neu that sum to 1 (Unit thousandths) and a     *)
(* compound score; the proportions are the multiples of Unit / ScoreSteps. *)
(***************************************************************************)
Unit == 1000

SentimentTexts == {<<>>, P_tiny, P_rev}

CompoundValues == {-10000, -501, -500, -499, 0, 499, 500, 501, 10000}

ScorerOutputs ==
    {[compound |-> c,
      pos |-> q[1] * (Unit \div ScoreSteps),
      neg |-> q[2] * (Unit \div ScoreSteps),
      neu |-> Unit - (q[1] + q[2]) * (Unit \div ScoreSteps)] :
        c \in CompoundValues,
        q \in {r \in (0..ScoreSteps) \X (0..ScoreSteps) : r[1] + r[2] <= ScoreSteps}}

IdleRun ==
    /\ max_articles = 1
    /\ min_articles = 1
    /\ valid_articles = <<>>
    /\ page = 0
    /\ fetched_articles = <<>>
    /\ idx = 0
    /\ pc = "idle"
    /\ warned = FALSE
    /\ result = Pending
    /\ search_status = NoSearch
    /\ searches = 0
    /\ start = 0
    /\ extracted = {}
    /\ ExtractorIdle
    /\ tcall = NoCall

InitSentiment ==
    /\ IdleRun
    /\ \E text \in SentimentTexts :
          \E scores \in ScorerOutputs :
             hcall = [fn |-> "analyze_sentiment", state |-> "called",
                      text |-> text, scores |-> scores]

(* lines 299-319: the call runs to its return *)
AnalyzeSentiment ==
    /\ hcall.fn = "analyze_sentiment"
    /\ hcall.state = "called"
    /\ hcall' = [fn |-> "analyze_sentiment", state |-> "returned",
                 text |-> hcall.text, scores |-> hcall.scores,
                 result |-> analyze_sentiment(hcall.text, hcall.scores)]
    /\ UNCHANGED <<ctrl, extr, tcall>>

NextSentiment == AnalyzeSentiment

SpecSentiment == InitSentiment /\ [][NextSentiment]_vars

(***************************************************************************)
(* One call of a comparison helper of format_output (lines 476-478) on     *)
(* its own, on a list of at most MaxCompared articles.                     *)
(***************************************************************************)
SentimentLabels == {"positive", "neutral", "negative"}

TopicSets == {{"Financial"}, {"Legal"}, {"Financial", "Legal"}}

ComparedArticles ==
    {[title |-> T_news, summary |-> P_tiny, topics |-> t,
      sentiment |-> [label |-> l]] : t \in TopicSets, l \in SentimentLabels}

FinalCompounds == {-10000, -2001, -2000, -1, 0, 1, 2000, 2001, 10000}

FinalScores ==
    {[compound |-> c, pos |-> 200, neg |-> 200, neu |-> 600] : c \in FinalCompounds}

NoScores == [compound |-> 0, pos |-> 0, neg |-> 0, neu |-> 0]

Helpers ==
    {"analyze_coverage_differences", "analyze_topic_overlap",
     "generate_final_sentiment"}

InitCompare ==
    /\ IdleRun
    /\ \E fn \in Helpers :
          \E articles \in SeqsUpTo(ComparedArticles, MaxCompared) :
             \E scores \in IF fn = "generate_final_sentiment"
                            THEN FinalScores ELSE {NoScores} :
                hcall = [fn |-> fn, state |-> "called", articles |-> articles,
                         scores |-> scores]

(* lines 367-386: the call runs to its return *)
CoverageDifferences ==
    /\ hcall.fn = "analyze_coverage_differences"
    /\ hcall.state = "called"
    /\ hcall' = [fn |-> hcall.fn, state |-> "returned",
                 articles |-> hcall.articles, scores |-> hcall.scores,
                 result |-> analyze_coverage_differences(hcall.articles)]
    /\ UNCHANGED <<ctrl, extr, tcall>>

(* lines 388-416: the call runs to its return *)
TopicOverlap ==
    /\ hcall.fn = "analyze_topic_overlap"
    /\ hcall.state = "called"
    /\ hcall' = [fn |-> hcall.fn, state |-> "returned",
                 articles |-> hcall.articles, scores |-> hcall.scores,
                 result |-> analyze_topic_overlap(hcall.articles)]
    /\ UNCHANGED <<ctrl, extr, tcall>>

(* lines 418-451: the call runs to its return *)
FinalSentiment ==
    /\ hcall.fn = "generate_final_sentiment"
    /\ hcall.state = "called"
    /\ hcall' = [fn |-> hcall.fn, state |-> "returned",
                 articles |-> hcall.articles, scores |-> hcall.scores,
                 result |-> generate_final_sentiment(hcall.articles, hcall.scores)]
    /\ UNCHANGED <<ctrl, extr, tcall>>

NextCompare ==
    \/ CoverageDifferences
    \/ TopicOverlap
    \/ FinalSentiment

SpecCompare == InitCompare /\ [][NextCompare]_vars

(***************************************************************************)
(* Properties.                                                             *)
(***************************************************************************)
FailedSearch ==
    \/ search_status.kind = "error"
    \/ search_status.kind = "http" /\ search_status.status # HttpOk

(* C1: no two articles of the accepted list share the same url, whatever   *)
(* the pages the searches return (the same url on two pages included).     *)
C1_NoDuplicateUrl ==
    \A i, j \in 1..Len(valid_articles) :
        i # j => valid_articles[i].url # valid_articles[j].url

(* C2: a search request or a call of the extractor is made only while      *)
(* fewer than max_articles articles are accepted, and the accepted list    *)
(* never holds more than max_articles articles.                            *)
C2_QuotaRespected ==
    [][ /\ (searches' # searches \/ (pc = "for" /\ pc' = "extract"))
            => Len(valid_articles) < max_articles
        /\ Len(valid_articles') <= max_articles' ]_vars

(* the quota is reached while a candidate of the page is still unvisited *)
C2_Witness ==
    /\ pc = "for"
    /\ Len(valid_articles) = max_articles
    /\ idx <= Len(fetched_articles)

C4_FailureIsolated ==
    [][ (pc = "extract" /\ pc' # "extract") =>
            /\ pc' = "for"
            /\ idx' = idx + 1
            /\ fetched_articles' = fetched_articles
            /\ page' = page
            /\ result' = Pending
            /\ ~content.valid => valid_articles' = valid_articles
            /\ \/ valid_articles' = valid_articles
               \/ /\ content.valid
                  /\ Len(valid_articles') = Len(valid_articles) + 1
                  /\ SubSeq(valid_articles', 1, Len(valid_articles)) = valid_articles
      ]_vars

(* the first candidate of page 0 failed and the second one was accepted *)
C4_Witness ==
    /\ pc = "for"
    /\ page = 0
    /\ idx = 3
    /\ Len(valid_articles) = 1
    /\ valid_articles[1].url = fetched_articles[2].url

(* C5: a search request that raises or returns a status other than 200     *)
(* gives the controller an empty page: no candidate, the accepted articles *)
(* unchanged, page 0 skipped and a later page ending the loop, and the     *)
(* articles accepted before it are returned.                               *)
C5_FailedSearchNotFatal ==
    [][ /\ (searches' # searches /\ FailedSearch') =>
              /\ fetched_articles' = <<>>
              /\ valid_articles' = valid_articles
              /\ result' = Pending
              /\ IF page > 0 THEN pc' = "post" /\ page' = page
                             ELSE pc' = "while" /\ page' = page + 1
        /\ (pc' = "done" /\ Len(valid_articles') > 0) =>
              (result'.kind = "result" /\ result'.articles = valid_articles')
      ]_vars

(* a run whose last search failed returns the article accepted before *)
C5_Witness ==
    /\ pc = "done"
    /\ FailedSearch
    /\ result.kind = "result"
    /\ Len(result.articles) >= 1

(* C6: one call makes at most 3 attempts; a failure on attempt 1 or 2      *)
(* sleeps and starts the next attempt, a failure on attempt 3 returns an   *)
(* invalid content whose summary carries the failure reason.               *)
C6_BoundedRetry ==
    [][ /\ attempts' <= 3
        /\ (FetchRaises \/ RefetchRaises) =>
              IF attempts < 3
              THEN /\ sleeps' = sleeps + 1
                   /\ attempts' = attempts + 1
                   /\ epc' = "fetch"
              ELSE /\ epc' = "ret"
                   /\ attempts' = attempts
                   /\ sleeps' = sleeps
                   /\ ~content'.valid
                   /\ \E err \in Errors :
                         /\ content' = FailedContent(err)
                         /\ Contains(content'.summary, err)
      ]_vars

(* the third attempt failed *)
C6_Witness ==
    /\ epc = "ret"
    /\ attempts = 3
    /\ sleeps = 2
    /\ content = FailedContent(E_timeout)

(* C7: a block title with retries left leads to exactly one request with   *)
(* the alternate header; if its page is not blocked the extraction goes on *)
(* with that page (valid when the content suffices), if it is blocked the  *)
(* call returns an invalid content.                                        *)
C7_IdentitySwap ==
    [][ /\ (epc = "fetch" /\ epc' = "ret" /\ retry_count < MaxRetry) =>
              (~IsBlocked(PageTitle(soup')) /\ content' = ExtractFromSoup(soup'))
        /\ (epc = "fetch" /\ epc' = "refetch") =>
              /\ retry_count < MaxRetry
              /\ IsBlocked(PageTitle(soup'))
              /\ gets' = gets + 1
              /\ alt_gets' = alt_gets
        /\ epc = "refetch" =>
              /\ epc' # "refetch"
              /\ alt_gets' = alt_gets + 1
              /\ gets' = gets
        /\ (epc = "refetch" /\ epc' = "ret") =>
              IF IsBlocked(PageTitle(soup'))
              THEN content' = InvalidContent
              ELSE /\ content' = ExtractFromSoup(soup')
                   /\ SufficientContent(soup') => content'.valid
      ]_vars

(* blocked on the first request, valid after the second *)
C7_Witness ==
    /\ epc = "ret"
    /\ gets = 1
    /\ alt_gets = 1
    /\ ~IsBlocked(PageTitle(soup))
    /\ content.valid

(* C8: the summary of a valid content has at most 500 characters. *)
C8_SummaryCapped ==
    (epc = "ret" /\ content.valid) => Len(content.summary) <= 500

(* a body of more than 500 characters whose first 7 sentences are short:   *)
(* the branch that cuts the body at 500 characters and adds the ellipsis   *)
C8_Witness ==
    /\ epc = "ret"
    /\ content.valid
    /\ Len(content.text) > 500
    /\ Len(SplitSentences(content.text)) > MaxSentences
    /\ Len(content.summary) = 500

(* C9: the three counts of the sentiment distribution of a result sum to   *)
(* the number of its articles, each article having one of the three labels.*)
C9_DistributionSums ==
    result.kind = "result" =>
        LET d == result.comparison.sentiment_distribution
        IN  /\ d.positive + d.neutral + d.negative = Len(result.articles)
            /\ \A i \in 1..Len(result.articles) :
                  result.articles[i].sentiment.label
                      \in {"positive", "neutral", "negative"}

(* a result of two articles with different labels *)
C9_Witness ==
    /\ result.kind = "result"
    /\ Len(result.articles) = 2
    /\ result.articles[1].sentiment.label = "neutral"
    /\ result.articles[2].sentiment.label = "negative"

KeywordTopics(summary) ==
    {t \in DOMAIN topic_categories :
        \E k \in topic_categories[t] : Contains(Lower(summary), k)}

(* C10: extract_topics never returns an empty set: {"General News"} for    *)
(* the empty summary, else the set of all matched topics, or               *)
(* {"General News"} when no topic matched.                                 *)
C10_TopicsNeverEmpty ==
    tcall.state = "returned" =>
        /\ tcall.topics # {}
        /\ tcall.summary = <<>> => tcall.topics = {"General News"}
        /\ tcall.summary # <<>> =>
              tcall.topics = IF KeywordTopics(tcall.summary) = {}
                             THEN {"General News"}
                             ELSE KeywordTopics(tcall.summary)

(* a non-empty summary that matches no topic *)
C10_Witness ==
    /\ tcall.state = "returned"
    /\ tcall.summary # <<>>
    /\ KeywordTopics(tcall.summary) = {}
    /\ tcall.topics = {"General News"}

(* C11 as stated: for every text, the empty text included, the positive,   *)
(* negative and neutral components returned by analyze_sentiment sum to 1. *)
C11_SumIsOne ==
    (hcall.fn = "analyze_sentiment" /\ hcall.state = "returned") =>
        hcall.result.pos + hcall.result.neg + hcall.result.neu = Unit

(* C11 amended: for every non-empty text the positive, negative and        *)
(* neutral components returned by analyze_sentiment sum to 1; for the      *)
(* empty text all components and the compound score are 0 and the label    *)
(* is neutral.                                                             *)
C11_SumIsOneUnlessEmpty ==
    (hcall.fn = "analyze_sentiment" /\ hcall.state = "returned") =>
        IF hcall.text # <<>>
        THEN hcall.result.pos + hcall.result.neg + hcall.result.neu = Unit
        ELSE /\ hcall.result.pos = 0
             /\ hcall.result.neg = 0
             /\ hcall.result.neu = 0
             /\ hcall.result.compound = 0
             /\ hcall.result.label = "neutral"

(* the call on the empty text has returned, with components that sum to 0 *)
C11_Witness ==
    /\ hcall.fn = "analyze_sentiment"
    /\ hcall.state = "returned"
    /\ hcall.text = <<>>
    /\ hcall.scores.pos + hcall.scores.neg + hcall.scores.neu = Unit
    /\ hcall.result.pos + hcall.result.neg + hcall.result.neu = 0

Returned(fn) == hcall.fn = fn /\ hcall.state = "returned"

(* C12: for n articles analyze_coverage_differences returns n*(n-1)/2      *)
(* entries, one for each pair i < j and no other, by increasing i then     *)
(* increasing j (none for n < 2); a side of an entry reads 'boost          *)
(* confidence' exactly when that article's label is positive, and 'raise   *)
(* concerns' otherwise.                                                    *)
C12_AllPairsOnce ==
    Returned("analyze_coverage_differences") =>
        LET n == Len(hcall.articles)
            d == hcall.result
        IN  /\ Len(d) = (n * (n - 1)) \div 2
            /\ n < 2 => d = <<>>
            /\ \A i, j \in 1..n :
                  Cardinality({k \in 1..Len(d) : d[k].i = i /\ d[k].j = j})
                      = IF i < j THEN 1 ELSE 0
            /\ \A k, l \in 1..Len(d) :
                  k < l => \/ d[k].i < d[l].i
                           \/ d[k].i = d[l].i /\ d[k].j < d[l].j
            /\ \A k \in 1..Len(d) :
                  /\ d[k].impact1 =
                        IF hcall.articles[d[k].i].sentiment.label = "positive"
                        THEN "boost confidence" ELSE "raise concerns"
                  /\ d[k].impact2 =
                        IF hcall.articles[d[k].j].sentiment.label = "positive"
                        THEN "boost confidence" ELSE "raise concerns"

(* three articles, of which only the second is positive, give three entries *)
C12_Witness ==
    /\ Returned("analyze_coverage_differences")
    /\ Len(hcall.articles) = 3
    /\ hcall.articles[1].sentiment.label = "negative"
    /\ hcall.articles[2].sentiment.label = "positive"
    /\ hcall.articles[3].sentiment.label = "neutral"
    /\ Len(hcall.result) = 3

ExclusiveTopics(articles, i) ==
    {t \in articles[i].topics :
        \A j \in 1..Len(articles) : j # i => t \notin articles[j].topics}

(* C13: for a non-empty list analyze_topic_overlap returns as common       *)
(* topics the topics every article holds, and for each article the topics  *)
(* no other article holds, or all its topics when it has none of those;    *)
(* for the empty list both are empty.                                      *)
C13_TopicOverlap ==
    Returned("analyze_topic_overlap") =>
        LET a == hcall.articles
            r == hcall.result
        IN  IF a = <<>>
            THEN r.common_topics = {} /\ r.unique_topics = <<>>
            ELSE /\ r.common_topics =
                       {t \in UNION {a[i].topics : i \in 1..Len(a)} :
                           \A i \in 1..Len(a) : t \in a[i].topics}
                 /\ Len(r.unique_topics) = Len(a)
                 /\ \A i \in 1..Len(a) :
                       r.unique_topics[i] =
                           IF ExclusiveTopics(a, i) # {}
                           THEN ExclusiveTopics(a, i)
                           ELSE a[i].topics

(* one article has a topic of its own, the other has none and gets all    *)
(* its topics                                                              *)
C13_Witness ==
    /\ Returned("analyze_topic_overlap")
    /\ Len(hcall.articles) = 2
    /\ hcall.articles[1].topics = {"Financial", "Legal"}
    /\ hcall.articles[2].topics = {"Financial"}
    /\ hcall.result.common_topics = {"Financial"}
    /\ hcall.result.unique_topics = << {"Legal"}, {"Financial"} >>

NumberOf(articles, label) ==
    Cardinality({i \in 1..Len(articles) : articles[i].sentiment.label = label})

StronglyPositive ==
    /\ 10 * NumberOf(hcall.articles, "positive") > 6 * Len(hcall.articles)
    /\ hcall.scores.compound > 2000

StronglyNegative ==
    /\ 10 * NumberOf(hcall.articles, "negative") > 6 * Len(hcall.articles)
    /\ hcall.scores.compound < -2000

LeansPositive ==
    /\ NumberOf(hcall.articles, "positive") > NumberOf(hcall.articles, "negative")
    /\ hcall.scores.compound > 0

LeansNegative ==
    /\ NumberOf(hcall.articles, "negative") > NumberOf(hcall.articles, "positive")
    /\ hcall.scores.compound < 0

(* C19: for a non-empty list generate_final_sentiment gives one of five    *)
(* verdicts, by the first rule that holds in the order strongly positive,  *)
(* strongly negative, leans positive, leans negative, balanced; when a     *)
(* 'strongly' rule holds no 'leans' verdict is given.                      *)
C19_FirstRuleWins ==
    (Returned("generate_final_sentiment") /\ hcall.articles # <<>>) =>
        /\ hcall.result =
              IF StronglyPositive THEN "strongly positive"
              ELSE IF StronglyNegative THEN "strongly negative"
              ELSE IF LeansPositive THEN "leans positive"
              ELSE IF LeansNegative THEN "leans negative"
              ELSE "balanced"
        /\ (StronglyPositive \/ StronglyNegative) =>
              hcall.result \notin {"leans positive", "leans negative"}

(* both the strongly positive and the leans positive rule hold *)
C19_Witness ==
    /\ Returned("generate_final_sentiment")
    /\ Len(hcall.articles) = 3
    /\ StronglyPositive
    /\ LeansPositive
    /\ hcall.result = "strongly positive"

(* a step of the page loop whose search gives no candidate *)
EmptySearchStep == searches' = searches + 1 /\ pc' # "for"

(* C14, as stated: a zero-candidate page ends the page loop when a page    *)
(* was tried before it, and otherwise the loop goes on and that same page  *)
(* is requested again.                                                     *)
C14_EmptyPageRetried ==
    [][EmptySearchStep =>
          IF searches = 0
          THEN pc' = "while" /\ page' = page
          ELSE pc' = "post"]_vars

(* C14, amended: a zero-candidate page ends the page loop at once when a   *)
(* page was tried before it, whatever was accepted and however many pages  *)
(* remain; when it is the first page tried, the loop goes on with the next *)
(* page, and the empty page is not requested again.                        *)
C14_EmptyPageStops ==
    [][EmptySearchStep =>
          IF searches = 0
          THEN pc' = "while" /\ page' = page + 1 /\ LoopCondition'
          ELSE pc' = "post" /\ page' = page /\ valid_articles' = valid_articles]_vars

(* the loop was left on an empty page, below the minimum and with pages    *)
(* remaining                                                               *)
C14_Witness ==
    /\ pc = "post"
    /\ searches = page + 1
    /\ page > 0
    /\ page < max_pages - 1
    /\ Len(valid_articles) < min_articles
    /\ LoopCondition

(* C15: in one run the extractor is called at most once for a url: a       *)
(* candidate whose url was handed to the extractor before, on this page or *)
(* an earlier one, accepted or not, is not handed to it again.             *)
C15_ExtractedOncePerUrl ==
    [][(pc = "for" /\ pc' = "extract") =>
          fetched_articles[idx].url \notin extracted]_vars

(* C16: a run makes at most 5 search requests; the k-th request, counted   *)
(* from 0, is for page k, which is at most 4, and carries the result       *)
(* offset 10 * k.                                                          *)
C16_PagesInOrder ==
    [][searches' # searches =>
          /\ searches' = searches + 1
          /\ searches' <= 5
          /\ page = searches
          /\ page <= 4
          /\ start' = page * 10]_vars

(* the fifth request, for page 4, was made *)
C16_Witness ==
    /\ searches = 5
    /\ start = 40
    /\ pc = "for"
    /\ page = 4

(* the call has returned what it made of a page that is not blocked *)
ReturnedFromPage == epc = "ret" /\ soup # NoSoup /\ ~IsBlocked(PageTitle(soup))

(* C17, as stated: a valid content has a non-empty text; the content is    *)
(* invalid when the joined paragraph text has at most 30 characters, its   *)
(* text is the title put before the joined text when that has 31 to 79     *)
(* characters, and the joined text itself when it has 80 or more.          *)
C17_ByJoinedLength ==
    ReturnedFromPage =>
        LET joined == JoinedText(soup)
            n == Len(joined)
        IN  /\ n <= 30 => ~content.valid
            /\ (31 <= n /\ n <= 79) =>
                  /\ content.valid
                  /\ content.text = PageTitle(soup) \o <<".", " ">> \o joined
            /\ n >= 80 => (content.valid /\ content.text = joined)
            /\ content.valid => content.text # <<>>

(* C17, amended: the same with the number of characters counted after the  *)
(* whitespace at both ends of the joined text is removed.                  *)
C17_ByStrippedLength ==
    ReturnedFromPage =>
        LET joined == JoinedText(soup)
            n == Len(Strip(joined))
        IN  /\ n <= 30 => ~content.valid
            /\ (31 <= n /\ n <= 79) =>
                  /\ content.valid
                  /\ content.text = PageTitle(soup) \o <<".", " ">> \o joined
            /\ n >= 80 => (content.valid /\ content.text = joined)
            /\ content.valid => content.text # <<>>

(* a joined text of 80 characters, 79 without the space at its end, is     *)
(* padded with the title                                                   *)
C17_Witness ==
    /\ ReturnedFromPage
    /\ Len(JoinedText(soup)) = 80
    /\ Len(Strip(JoinedText(soup))) = 79
    /\ content.valid
    /\ Len(content.text) = Len(PageTitle(soup)) + 2 + 80

(* the locator is tried before any locator that finds an element *)
BeforeAnyMatch(k) == \A h \in 1..(k - 1) : ~soup.containers[h].found

IsLong(p) == Len(Strip(p)) > 20

(* the paragraphs C18 names for the page: those of the first locator, in   *)
(* the order of the list, that finds an element; without such a locator    *)
(* the paragraphs of the page of more than 20 characters                   *)
NamedParagraphs ==
    IF \E k \in 1..NumLocators : soup.containers[k].found
    THEN LET k == CHOOSE c \in 1..NumLocators :
                      soup.containers[c].found /\ BeforeAnyMatch(c)
         IN  soup.containers[k].paras
    ELSE SelectSeq(soup.paras, IsLong)

(* C18: the content is made of the paragraphs of the first locator, in the *)
(* order article, class, id, main, generic class, that finds an element,   *)
(* and of the paragraphs of more than 20 characters of the whole page      *)
(* exactly when no locator finds one.                                      *)
C18_FirstMatchWins ==
    ReturnedFromPage =>
        LET ps == NamedParagraphs
            joined == Join([i \in 1..Len(ps) |-> Strip(ps[i])], <<" ">>)
        IN  IF content.valid
            THEN \/ content.text = joined
                 \/ content.text = PageTitle(soup) \o <<".", " ">> \o joined
            ELSE Len(Strip(joined)) <= 30

(* the class locator and the generic locator both find an element, the     *)
(* article locator none: the text is that of the class container           *)
C18_Witness ==
    /\ ReturnedFromPage
    /\ ~soup.containers[1].found
    /\ soup.containers[2].found
    /\ soup.containers[5].found
    /\ soup.containers[2].paras # soup.containers[5].paras
    /\ content.valid
    /\ content.text = soup.containers[2].paras[1]

(* C20: every run reaches its return and every call of the extractor       *)
(* reaches its return, whatever the searches give and whichever fetches    *)
(* fail or are blocked; every pass of the page loop that comes back to its *)
(* head has added 1 to the page counter, and the extractor never calls     *)
(* itself at a depth above MaxRetry.                                       *)
C20_Terminates ==
    /\ <>(pc = "done")
    /\ (pc = "extract") ~> (epc = "ret")
    /\ [][pc' = "while" => page' = page + 1]_vars
    /\ [](retry_count <= MaxRetry /\ page <= max_pages)

(* a run that returned after five pages without any article accepted      *)
C20_Witness ==
    /\ pc = "done"
    /\ page = max_pages
    /\ searches = max_pages
    /\ valid_articles = <<>>
    /\ result = None

(* C21: one top-level call of the extractor makes at most 5 requests: at   *)
(* most one with the first header on each of its at most 3 attempts, and   *)
(* at most 2 with the alternate header, none of them on the third attempt; *)
(* a request with the alternate header is made only right after a request  *)
(* of the same attempt whose page has a block title.                       *)
C21_AtMostFiveRequests ==
    [][ /\ gets' + alt_gets' <= 5
        /\ gets' <= 3
        /\ alt_gets' <= 2
        /\ retry_count' = 2 => epc' # "refetch"
        /\ epc' = "refetch" =>
              /\ epc = "fetch"
              /\ gets' = gets + 1
              /\ IsBlocked(PageTitle(soup'))
        /\ alt_gets' # alt_gets =>
              /\ alt_gets' = alt_gets + 1
              /\ gets' = gets
              /\ epc = "refetch"
              /\ retry_count < 2
              /\ IsBlocked(PageTitle(soup))
      ]_vars

(* five requests: the first two attempts are blocked and their second      *)
(* request fails, the third attempt makes one request                      *)
C21_Witness ==
    /\ epc = "ret"
    /\ retry_count = 2
    /\ gets = 3
    /\ alt_gets = 2
====
